---- MODULE Spec2Model ----
(***************************************************************************)
(* Model of parquet2's file-level metadata bridge                          *)
(* (src/metadata/file_metadata.rs): FileMetaData::try_from_thrift,         *)
(* FileMetaData::into_thrift, FileMetaData::column_order and               *)
(* parse_column_orders, together with the collaborators they call          *)
(* (SchemaDescriptor, RowGroupMetaData, get_sort_order).                   *)
(*                                                                         *)
(* Rust's Option<T> is modelled as a sequence of length at most one:       *)
(* None is <<>>, Some(x) is <<x>>.  Result<T, E> is a record with an ok    *)
(* flag.  Integer widths are scaled down: the wire i64 has I64Bits bits,   *)
(* usize has pointer_width bits.                                           *)
(***************************************************************************)
EXTENDS Integers, Sequences, FiniteSets, TLC

\* ------------------------------------------------------------------ bounds

\* Width, in bits, of the scaled-down wire integer (stands for i64).
I64Bits == 3
\* Largest number of leaf columns of an enumerated schema.
MaxLeaves == 2
\* Largest number of row groups of an enumerated footer.
MaxRowGroups == 2
\* Largest number of key/value pairs of an enumerated footer.
MaxKeyValues == 2
\* Largest number of conversions applied to one input.
MaxConversions == 3

\* ----------------------------------------------------------------- helpers

None == <<>>
Some(x) == <<x>>
IsSome(o) == Len(o) = 1
IsNone(o) == Len(o) = 0
Unwrap(o) == o[1]

Pow2(n) == 2 ^ n
Min(a, b) == IF a <= b THEN a ELSE b

\* All sequences over S of length at most n.
SeqsUpTo(S, n) == UNION {[1..k -> S] : k \in 0..n}

\* The wire integer type (i64, scaled).
I64Min == 0 - Pow2(I64Bits - 1)
I64Max == Pow2(I64Bits - 1) - 1
I64 == I64Min..I64Max

\* usize on a target whose pointers have w bits.
UsizeMax(w) == Pow2(w) - 1
\* The targets a build can have: usize narrower than i64 (32-bit targets) or
\* as wide as i64 (64-bit targets).
PointerWidths == {I64Bits - 2, I64Bits}

Ok(v) == [ok |-> TRUE, value |-> v]
Err(e) == [ok |-> FALSE, error |-> e]

\* ------------------------------------------------- sort order resolution

\* SortOrder: the orderings of a column's min/max statistics.
SortOrder == {"Signed", "Unsigned", "Undefined"}

\* The type tags the model enumerates (a subset of the format's).
LogicalTypes == {"String", "Integer", "Unknown"}
ConvertedTypes == {"Utf8", "Int32", "Uint32", "Interval"}
PhysicalTypes == {"Boolean", "Int32", "Int96", "Double", "ByteArray",
                  "FixedLenByteArray"}

get_logical_sort_order(t) ==
    CASE t = "String" -> "Unsigned"
      [] t = "Integer" -> "Signed"
      [] OTHER -> "Undefined"

get_converted_sort_order(t) ==
    CASE t = "Utf8" -> "Unsigned"
      [] t = "Uint32" -> "Unsigned"
      [] t = "Int32" -> "Signed"
      [] OTHER -> "Undefined"

get_physical_sort_order(t) ==
    CASE t = "Boolean" -> "Unsigned"
      [] t = "Int32" -> "Signed"
      [] t = "Double" -> "Signed"
      [] t = "ByteArray" -> "Unsigned"
      [] t = "FixedLenByteArray" -> "Unsigned"
      [] OTHER -> "Undefined"

\* The logical type decides when present, else the converted type, else the
\* physical type; a combination outside the table is "Undefined".
get_sort_order(logical_type, converted_type, physical_type) ==
    IF IsSome(logical_type) THEN get_logical_sort_order(Unwrap(logical_type))
    ELSE IF IsSome(converted_type)
         THEN get_converted_sort_order(Unwrap(converted_type))
         ELSE get_physical_sort_order(physical_type)

\* A leaf column's primitive-type descriptor.
PrimitiveType(l, c, p) ==
    [logical_type |-> l, converted_type |-> c, physical_type |-> p]

\* The primitive types of the enumerated leaf columns, one of each order:
\* Signed (physical type alone), Unsigned (logical type), Undefined
\* (converted type over an Unsigned physical type).
PrimitiveTypes ==
    { PrimitiveType(None, None, "Int32"),
      PrimitiveType(Some("String"), Some("Utf8"), "ByteArray"),
      PrimitiveType(None, Some("Interval"), "FixedLenByteArray") }

\* ColumnOrder: Undefined | TypeDefinedOrder(SortOrder).
Undefined == [variant |-> "Undefined", sort_order |-> "Undefined"]
TypeDefinedOrder(s) == [variant |-> "TypeDefinedOrder", sort_order |-> s]

\* ------------------------------------------------------ schema descriptor

\* A wire schema is the pre-order list of the schema tree's elements: a group
\* carries num_children, a leaf carries its type.
GroupElement(n) == [num_children |-> Some(n), ptype |-> None]
LeafElement(t) == [num_children |-> None, ptype |-> Some(t)]

\* Native schema nodes.
PrimitiveNode(t) == [kind |-> "primitive", ptype |-> Some(t), fields |-> <<>>]
GroupNode(fs) == [kind |-> "group", ptype |-> None, fields |-> fs]

RECURSIVE FlattenSeq(_)
\* Concatenation of a sequence of sequences.
FlattenSeq(ss) ==
    IF ss = <<>> THEN <<>> ELSE Head(ss) \o FlattenSeq(Tail(ss))

RECURSIVE NodeLeaves(_)
\* The leaf columns below a node, in schema order.
NodeLeaves(node) ==
    IF node.kind = "primitive" THEN <<Unwrap(node.ptype)>>
    ELSE FlattenSeq([i \in 1..Len(node.fields) |-> NodeLeaves(node.fields[i])])

\* SchemaDescriptor: the root's fields and the flat list of leaf columns.
SchemaDescriptor(fs) ==
    [fields |-> fs, leaves |-> NodeLeaves(GroupNode(fs))]

\* SchemaDescriptor::columns
columns(schema_descr) == schema_descr.leaves

RECURSIVE from_thrift_helper(_, _), from_thrift_children(_, _, _)
\* Parses the node that starts at `index`; yields the node and the index after it.
from_thrift_helper(elements, index) ==
    IF index > Len(elements) THEN Err("schema")
    ELSE LET e == elements[index] IN
         IF IsNone(e.num_children)
         THEN IF IsSome(e.ptype)
              THEN Ok([next |-> index + 1, node |-> PrimitiveNode(Unwrap(e.ptype))])
              ELSE Err("schema")
         ELSE LET r == from_thrift_children(elements, index + 1, Unwrap(e.num_children)) IN
              IF r.ok
              THEN Ok([next |-> r.value.next, node |-> GroupNode(r.value.nodes)])
              ELSE r

\* Parses `n` consecutive nodes starting at `index`.
from_thrift_children(elements, index, n) ==
    IF n = 0 THEN Ok([next |-> index, nodes |-> <<>>])
    ELSE LET first == from_thrift_helper(elements, index) IN
         IF ~first.ok THEN first
         ELSE LET rest == from_thrift_children(elements, first.value.next, n - 1) IN
              IF ~rest.ok THEN rest
              ELSE Ok([next |-> rest.value.next,
                       nodes |-> <<first.value.node>> \o rest.value.nodes])

\* SchemaDescriptor::try_from_thrift: the elements must be exactly one tree
\* whose root is a group.
schema_try_from_thrift(elements) ==
    LET r == from_thrift_helper(elements, 1) IN
    IF ~r.ok THEN Err([kind |-> "schema", detail |-> "malformed tree"])
    ELSE IF r.value.next # Len(elements) + 1
         THEN Err([kind |-> "schema", detail |-> "trailing elements"])
    ELSE IF r.value.node.kind # "group"
         THEN Err([kind |-> "schema", detail |-> "root is not a group"])
    ELSE Ok(SchemaDescriptor(r.value.node.fields))

RECURSIVE node_into_thrift(_)
\* The pre-order element list of a node.
node_into_thrift(node) ==
    IF node.kind = "primitive" THEN <<LeafElement(Unwrap(node.ptype))>>
    ELSE <<GroupElement(Len(node.fields))>>
         \o FlattenSeq([i \in 1..Len(node.fields) |-> node_into_thrift(node.fields[i])])

\* SchemaDescriptor::into_thrift
schema_into_thrift(schema_descr) == node_into_thrift(GroupNode(schema_descr.fields))

\* --------------------------------------------------------- integer casts

\* Faulty variant of try_into_usize: the cast `as usize`, which wraps instead
\* of failing.
try_into_usize_wrapping(x, w) == Ok(x % Pow2(w))

\* i64 -> usize by TryFrom: fails on a negative value and on one above
\* usize::MAX of the target.
try_into_usize(x, w) ==
    IF x >= 0 /\ x <= UsizeMax(w) THEN Ok(x)
    ELSE Err([kind |-> "range", detail |-> "TryFromIntError"])

\* usize -> i64 by `as`: the low I64Bits bits, read as two's complement.
as_i64(n) ==
    LET m == n % Pow2(I64Bits) IN
    IF m > I64Max THEN m - Pow2(I64Bits) ELSE m

\* ------------------------------------------------------ row group metadata

\* A wire row group: its number of column chunks and its row count.
WireRowGroup(c, n) == [columns |-> c, num_rows |-> n]

\* RowGroupMetaData::try_from_thrift: the row group must have one column chunk
\* per leaf column of the schema, and a representable row count.
row_group_try_from_thrift(schema_descr, rg, w) ==
    IF rg.columns # Len(columns(schema_descr))
    THEN Err([kind |-> "row group", detail |-> "number of columns"])
    ELSE LET n == try_into_usize(rg.num_rows, w) IN
         IF ~n.ok
         THEN Err([kind |-> "row group", detail |-> "number of rows"])
         ELSE Ok([columns |-> columns(schema_descr), num_rows |-> n.value])

\* RowGroupMetaData::into_thrift
row_group_into_thrift(rg) ==
    WireRowGroup(Len(rg.columns), as_i64(rg.num_rows))

\* ---------------------------------------------------------- file metadata

\* Faulty variant of parse_column_orders: every tag is resolved against the
\* first leaf column instead of its own.
parse_column_orders_first_column(orders, schema_descr) ==
    LET cols == columns(schema_descr) IN
    [j \in 1..Min(Len(cols), Len(orders)) |->
        TypeDefinedOrder(get_sort_order(cols[1].logical_type,
                                        cols[1].converted_type,
                                        cols[1].physical_type))]

\* parse_column_orders: the schema's leaf columns zipped with the wire order
\* tags, one TypeDefinedOrder per pair; zip stops at the shorter of the two.
parse_column_orders(orders, schema_descr) ==
    LET cols == columns(schema_descr) IN
    [j \in 1..Min(Len(cols), Len(orders)) |->
        CASE orders[j] = "TYPEORDER" ->
            TypeDefinedOrder(get_sort_order(cols[j].logical_type,
                                            cols[j].converted_type,
                                            cols[j].physical_type))]

RECURSIVE convert_row_groups_last(_, _, _)
\* Faulty variant of convert_row_groups: every row group is converted and the
\* last failure, not the first, is the result.
convert_row_groups_last(schema_descr, rgs, w) ==
    IF rgs = <<>> THEN Ok(<<>>)
    ELSE LET first == row_group_try_from_thrift(schema_descr, Head(rgs), w)
             rest == convert_row_groups_last(schema_descr, Tail(rgs), w)
         IN
         IF ~rest.ok THEN rest
         ELSE IF ~first.ok THEN first
         ELSE Ok(<<first.value>> \o rest.value)

RECURSIVE convert_row_groups(_, _, _)
\* The row groups converted in sequence order and collected into a Result:
\* the first failure ends the iteration and is the result.
convert_row_groups(schema_descr, rgs, w) ==
    IF rgs = <<>> THEN Ok(<<>>)
    ELSE LET first == row_group_try_from_thrift(schema_descr, Head(rgs), w) IN
         IF ~first.ok THEN first
         ELSE LET rest == convert_row_groups(schema_descr, Tail(rgs), w) IN
              IF ~rest.ok THEN rest
              ELSE Ok(<<first.value>> \o rest.value)

\* FileMetaData::try_from_thrift on a target with w-bit pointers.
try_from_thrift(metadata, w) ==
    LET schema_descr == schema_try_from_thrift(metadata.schema) IN
    IF ~schema_descr.ok THEN schema_descr
    ELSE LET row_groups == convert_row_groups(schema_descr.value,
                                              metadata.row_groups, w)
         IN
         IF ~row_groups.ok THEN row_groups
         ELSE LET column_orders ==
                      IF IsSome(metadata.column_orders)
                      THEN Some(parse_column_orders(Unwrap(metadata.column_orders),
                                                    schema_descr.value))
                      ELSE None
                  num_rows == try_into_usize(metadata.num_rows, w)
              IN
              IF ~num_rows.ok THEN num_rows
              ELSE Ok([version |-> metadata.version,
                       num_rows |-> num_rows.value,
                       created_by |-> metadata.created_by,
                       row_groups |-> row_groups.value,
                       key_value_metadata |-> metadata.key_value_metadata,
                       schema_descr |-> schema_descr.value,
                       column_orders |-> column_orders])

\* Faulty variant of into_thrift: an empty key_value_metadata is written as
\* an absent one.
into_thrift_empty_as_absent(self) ==
    [version |-> self.version,
     schema |-> schema_into_thrift(self.schema_descr),
     num_rows |-> as_i64(self.num_rows),
     row_groups |-> [i \in 1..Len(self.row_groups) |->
                        row_group_into_thrift(self.row_groups[i])],
     key_value_metadata |-> IF self.key_value_metadata = Some(<<>>)
                            THEN None ELSE self.key_value_metadata,
     created_by |-> self.created_by,
     column_orders |-> None,
     encryption_algorithm |-> None,
     footer_signing_key_metadata |-> None]

\* FileMetaData::into_thrift
into_thrift(self) ==
    [version |-> self.version,
     schema |-> schema_into_thrift(self.schema_descr),
     num_rows |-> as_i64(self.num_rows),
     row_groups |-> [i \in 1..Len(self.row_groups) |->
                        row_group_into_thrift(self.row_groups[i])],
     key_value_metadata |-> self.key_value_metadata,
     created_by |-> self.created_by,
     column_orders |-> None,
     encryption_algorithm |-> None,
     footer_signing_key_metadata |-> None]

\* The outcomes of a call: a returned value, or a panic.
Returned(v) == [returned |-> TRUE, value |-> Some(v)]
Panicked == [returned |-> FALSE, value |-> None]

\* Faulty variant of column_order: absent column orders are unwrapped, which
\* panics, instead of falling back to Undefined.
column_order_unwrap(self, i) ==
    IF IsSome(self.column_orders)
    THEN LET data == Unwrap(self.column_orders) IN
         IF i < Len(data) THEN Returned(data[i + 1]) ELSE Panicked
    ELSE Panicked

\* Faulty variant of column_order: a checked lookup that falls back to
\* Undefined when i is out of bounds.
column_order_get_or_undefined(self, i) ==
    IF IsSome(self.column_orders)
    THEN LET data == Unwrap(self.column_orders) IN
         IF i < Len(data) THEN Returned(data[i + 1]) ELSE Returned(Undefined)
    ELSE Returned(Undefined)

\* FileMetaData::column_order: data[i] panics when i is out of bounds (the
\* index is zero-based).
column_order(self, i) ==
    IF IsSome(self.column_orders)
    THEN LET data == Unwrap(self.column_orders) IN
         IF i < Len(data) THEN Returned(data[i + 1]) ELSE Panicked
    ELSE Returned(Undefined)

\* ------------------------------------------------------------------ inputs

Int32Type == PrimitiveType(None, None, "Int32")
StringType == PrimitiveType(Some("String"), Some("Utf8"), "ByteArray")
IntervalType == PrimitiveType(None, Some("Interval"), "FixedLenByteArray")

\* The wire schema of a root group whose children are the given leaves.
FlatSchema(leaves) ==
    <<GroupElement(Len(leaves))>> \o [j \in 1..Len(leaves) |-> LeafElement(leaves[j])]

\* Wire schemas: every flat schema of at most MaxLeaves leaves, a leaf nested
\* in a group, and malformed trees (empty, a leaf as root, a missing child, a
\* trailing element, an element with neither children nor type).
WireSchemas ==
    {FlatSchema(l) : l \in SeqsUpTo(PrimitiveTypes, MaxLeaves)}
    \cup {<<GroupElement(1), GroupElement(1), LeafElement(t)>> : t \in PrimitiveTypes}
    \cup { <<>>,
           <<LeafElement(Int32Type)>>,
           <<GroupElement(1)>>,
           <<GroupElement(1), LeafElement(Int32Type), LeafElement(StringType)>>,
           <<GroupElement(1), [num_children |-> None, ptype |-> None]>> }

\* Wire column orders: absent, or any number of tags up to one more than the
\* largest leaf count.  The wire format has the single tag kind TYPEORDER.
WireColumnOrders ==
    {None} \cup {Some([j \in 1..n |-> "TYPEORDER"]) : n \in 0..(MaxLeaves + 1)}

WireRowGroups == {WireRowGroup(c, n) : c \in {1, 2}, n \in {0 - 1, 1}}

KeyValue(k, v) == [key |-> k, value |-> v]
KeyValues == {KeyValue("a", Some("1")), KeyValue("a", None), KeyValue("b", None)}
KeyValueMetadata == {None} \cup {Some(q) : q \in SeqsUpTo(KeyValues, MaxKeyValues)}

CreatedBy == {None, Some("parquet-mr version 1.8.0")}
Versions == {1, 2}

\* parquet_format_safe::FileMetaData
WireFileMetaData(v, s, n, rgs, kv, cb, co, enc, key) ==
    [version |-> v, schema |-> s, num_rows |-> n, row_groups |-> rgs,
     key_value_metadata |-> kv, created_by |-> cb, column_orders |-> co,
     encryption_algorithm |-> enc, footer_signing_key_metadata |-> key]

\* Footers that vary the schema and the column-order tags.
OrderFooters ==
    {WireFileMetaData(1, s, 0, <<>>, None, None, co, None, None) :
        s \in WireSchemas, co \in WireColumnOrders}

\* Footers that vary what can fail: the schema, the row groups, the row count.
RowFooters ==
    {WireFileMetaData(1, s, n, rgs, None, None, co, None, None) :
        s \in {<<>>, FlatSchema(<<Int32Type>>), FlatSchema(<<StringType, IntervalType>>)},
        n \in I64,
        rgs \in SeqsUpTo(WireRowGroups, MaxRowGroups),
        co \in {None, Some(<<"TYPEORDER">>)}}

\* Footers that vary the fields carried through.
EnvelopeFooters ==
    {WireFileMetaData(v, FlatSchema(<<StringType>>), 1, <<WireRowGroup(1, 1)>>,
                      kv, cb, co, enc, key) :
        v \in Versions, kv \in KeyValueMetadata, cb \in CreatedBy,
        co \in {None, Some(<<"TYPEORDER">>)},
        enc \in {None, Some("AES_GCM_V1")}, key \in {None, Some("k")}}

WireFooters == OrderFooters \cup RowFooters \cup EnvelopeFooters

\* Schema descriptors of files being written.
NativeSchemas ==
    {SchemaDescriptor(fs) :
        fs \in { <<PrimitiveNode(Int32Type)>>,
                 <<PrimitiveNode(StringType), PrimitiveNode(IntervalType)>>,
                 <<GroupNode(<<PrimitiveNode(IntervalType)>>), PrimitiveNode(Int32Type)>> }}

\* The column orders a valid FileMetaData can hold for a schema: none, or one
\* per leaf column.
NativeColumnOrders(sd) ==
    { None,
      Some([j \in 1..Len(sd.leaves) |-> Undefined]),
      Some([j \in 1..Len(sd.leaves) |->
               TypeDefinedOrder(get_sort_order(sd.leaves[j].logical_type,
                                               sd.leaves[j].converted_type,
                                               sd.leaves[j].physical_type))]) }

\* The FileMetaData values a writer can assemble on a target with w-bit
\* pointers: every field is public, num_rows is any usize.
NativeFileMetaData(w) ==
    UNION {
      {[version |-> v, num_rows |-> n, created_by |-> cb, row_groups |-> rgs,
        key_value_metadata |-> kv, schema_descr |-> sd, column_orders |-> co] :
          v \in Versions, n \in 0..UsizeMax(w), cb \in CreatedBy,
          rgs \in SeqsUpTo({[columns |-> sd.leaves, num_rows |-> r] : r \in {0, 1}}, 1),
          kv \in {None, Some(<<>>), Some(<<KeyValue("a", Some("1")), KeyValue("b", None)>>)},
          co \in NativeColumnOrders(sd)} :
      sd \in NativeSchemas}

\* ----------------------------------------------------------- state machine

VARIABLES
    pointer_width,  \* the target's usize width, fixed by the build
    thrift,         \* Option: the wire footer in hand
    meta,           \* Option: the FileMetaData in hand
    error,          \* Option: the error of the last conversion
    query,          \* Option: the last column_order call and its outcome
    hist            \* the conversions applied so far, each with what it consumed

vars == <<pointer_width, thrift, meta, error, query, hist>>

\* The largest index column_order is called with: past every leaf count.
MaxIndex == MaxLeaves + 1

\* A column_order call panicked; the caller does not go on.
Faulted == IsSome(query) /\ ~Unwrap(query).outcome.returned

Init ==
    /\ pointer_width \in PointerWidths
    /\ \/ /\ thrift \in {Some(f) : f \in WireFooters}
          /\ meta = None
       \/ /\ thrift = None
          /\ meta \in {Some(m) : m \in NativeFileMetaData(pointer_width)}
    /\ error = None
    /\ query = None
    /\ hist = <<>>

\* FileMetaData::try_from_thrift(metadata): consumes the wire footer.
TryFromThrift ==
    /\ IsSome(thrift)
    /\ ~Faulted
    /\ Len(hist) < MaxConversions
    /\ LET r == try_from_thrift(Unwrap(thrift), pointer_width) IN
       /\ meta' = IF r.ok THEN Some(r.value) ELSE None
       /\ error' = IF r.ok THEN None ELSE Some(r.error)
    /\ thrift' = None
    /\ query' = None
    /\ hist' = Append(hist, [op |-> "try_from_thrift", thrift |-> thrift, meta |-> None])
    /\ UNCHANGED pointer_width

\* FileMetaData::into_thrift(self): consumes the FileMetaData.
IntoThrift ==
    /\ IsSome(meta)
    /\ ~Faulted
    /\ Len(hist) < MaxConversions
    /\ thrift' = Some(into_thrift(Unwrap(meta)))
    /\ meta' = None
    /\ error' = None
    /\ query' = None
    /\ hist' = Append(hist, [op |-> "into_thrift", thrift |-> None, meta |-> meta])
    /\ UNCHANGED pointer_width

\* FileMetaData::column_order(&self, i)
ColumnOrder ==
    /\ IsSome(meta)
    /\ ~Faulted
    /\ \E i \in 0..MaxIndex :
          query' = Some([i |-> i, outcome |-> column_order(Unwrap(meta), i)])
    /\ UNCHANGED <<pointer_width, thrift, meta, error, hist>>

Next == TryFromThrift \/ IntoThrift \/ ColumnOrder

Spec == Init /\ [][Next]_vars

\* ------------------------------------------------------- history helpers

Steps == Len(hist)
\* The i-th conversion applied, "none" when fewer were applied.
Op(i) == IF i >= 1 /\ i <= Steps THEN hist[i].op ELSE "none"
LastOp == Op(Steps)
\* The wire footer the last try_from_thrift consumed.
WireIn == Unwrap(hist[Steps].thrift)
\* The FileMetaData the last into_thrift consumed.
MetaIn == Unwrap(hist[Steps].meta)
\* The last conversion was a try_from_thrift that returned Ok.
Converted == LastOp = "try_from_thrift" /\ IsSome(meta)
\* The FileMetaData in hand, and its leaf columns.
Meta == Unwrap(meta)
Leaves == columns(Meta.schema_descr)
SortOrderOf(t) == get_sort_order(t.logical_type, t.converted_type, t.physical_type)

\* ------------------------------------------------------------------ claims

\* C1: on every successful try_from_thrift, if the resulting column_orders is
\* present then its length equals the number of leaf columns of the resulting
\* schema_descr.  (Violated: zip stops at the shorter sequence.)
C1_ColumnOrdersLength ==
    (Converted /\ IsSome(Meta.column_orders))
        => Len(Unwrap(Meta.column_orders)) = Len(Leaves)

\* C2: for a schema with k leaf columns and n wire order tags,
\* parse_column_orders yields exactly min(k, n) classifications (k when n = k),
\* and element j is TypeDefinedOrder of the sort order resolved from leaf
\* column j's own type tags.
C2_ColumnOrderAlignment ==
    (Converted /\ IsSome(WireIn.column_orders)) =>
        /\ IsSome(Meta.column_orders)
        /\ LET out == Unwrap(Meta.column_orders)
               k == Len(Leaves)
               n == Len(Unwrap(WireIn.column_orders))
           IN
           /\ Len(out) = Min(k, n)
           /\ (n = k => Len(out) = k)
           /\ \A j \in 1..Len(out) :
                 out[j] = TypeDefinedOrder(SortOrderOf(Leaves[j]))

\* C2 witness: three tags against two leaf columns of different sort orders.
C2_Witness ==
    /\ Converted
    /\ IsSome(WireIn.column_orders)
    /\ Len(Unwrap(WireIn.column_orders)) = 3
    /\ Len(Leaves) = 2
    /\ SortOrderOf(Leaves[1]) # SortOrderOf(Leaves[2])
    /\ Len(Unwrap(Meta.column_orders)) = 2

\* The schema and the row groups of the consumed wire footer convert.
SchemaAndRowGroupsConvert ==
    LET s == schema_try_from_thrift(WireIn.schema) IN
    s.ok /\ convert_row_groups(s.value, WireIn.row_groups, pointer_width).ok

\* C3: when the schema and the row groups convert, try_from_thrift fails with a
\* range error if the wire num_rows is negative, and succeeds with num_rows
\* equal to the wire value if it is zero or positive and representable.
C3_RowCountBoundary ==
    (LastOp = "try_from_thrift" /\ SchemaAndRowGroupsConvert) =>
        /\ WireIn.num_rows < 0 =>
              /\ IsNone(meta)
              /\ IsSome(error)
              /\ Unwrap(error).kind = "range"
        /\ (WireIn.num_rows >= 0 /\ WireIn.num_rows <= UsizeMax(pointer_width)) =>
              /\ IsSome(meta)
              /\ IsNone(error)
              /\ Meta.num_rows = WireIn.num_rows

\* C3 witness: num_rows = -1 on a footer whose schema and row groups convert,
\* rejected with the range error.
C3_Witness ==
    /\ LastOp = "try_from_thrift"
    /\ SchemaAndRowGroupsConvert
    /\ WireIn.row_groups # <<>>
    /\ WireIn.num_rows = 0 - 1
    /\ error = Some([kind |-> "range", detail |-> "TryFromIntError"])

\* C4: for every valid FileMetaData m with column_orders = None,
\* try_from_thrift(into_thrift(m)) succeeds and yields a value equal to m.
\* (Violated: a num_rows above i64::MAX is cast to a negative wire value.)
C4_RoundTrip ==
    (Steps >= 2 /\ Op(Steps - 1) = "into_thrift" /\ LastOp = "try_from_thrift"
        /\ IsNone(Unwrap(hist[Steps - 1].meta).column_orders))
        => (IsSome(meta) /\ IsNone(error) /\ meta = hist[Steps - 1].meta)

\* The round trip of C4 for the values of num_rows that i64 holds.
RoundTripWithinI64 ==
    (Steps >= 2 /\ Op(Steps - 1) = "into_thrift" /\ LastOp = "try_from_thrift"
        /\ IsNone(Unwrap(hist[Steps - 1].meta).column_orders)
        /\ Unwrap(hist[Steps - 1].meta).num_rows <= I64Max)
        => (IsSome(meta) /\ IsNone(error) /\ meta = hist[Steps - 1].meta)

\* C5: a FileMetaData built by try_from_thrift from a footer without
\* column-order tags has no column_orders, and column_order(i) returns
\* Undefined for every i, without a panic.
C5_UndefinedFallback ==
    (Converted /\ IsNone(WireIn.column_orders)) =>
        /\ IsNone(Meta.column_orders)
        /\ IsSome(query) => Unwrap(query).outcome = Returned(Undefined)

\* C5 witness: column_order(0) on a single-column schema read without tags.
C5_Witness ==
    /\ Converted
    /\ IsNone(WireIn.column_orders)
    /\ Len(Leaves) = 1
    /\ IsSome(query)
    /\ Unwrap(query).i = 0
    /\ Unwrap(query).outcome = Returned(Undefined)

\* C6: with column_orders present, column_order(i) for i at or beyond its
\* length panics; it returns no classification.
C6_OutOfRangeFaults ==
    (IsSome(meta) /\ IsSome(query) /\ IsSome(Meta.column_orders)
        /\ Unwrap(query).i >= Len(Unwrap(Meta.column_orders)))
        => (~Unwrap(query).outcome.returned /\ IsNone(Unwrap(query).outcome.value))

\* C6 witness: column_order(2) on two present column orders.
C6_Witness ==
    /\ IsSome(meta)
    /\ IsSome(Meta.column_orders)
    /\ Len(Unwrap(Meta.column_orders)) = 2
    /\ IsSome(query)
    /\ Unwrap(query).i = 2
    /\ Unwrap(query).outcome = Panicked

\* What into_thrift produces apart from num_rows: no column orders, no
\* encryption fields, and version, created_by, key_value_metadata copied.
IntoThriftFrame ==
    LastOp = "into_thrift" =>
        /\ IsNone(Unwrap(thrift).column_orders)
        /\ IsNone(Unwrap(thrift).encryption_algorithm)
        /\ IsNone(Unwrap(thrift).footer_signing_key_metadata)
        /\ Unwrap(thrift).version = MetaIn.version
        /\ Unwrap(thrift).created_by = MetaIn.created_by
        /\ Unwrap(thrift).key_value_metadata = MetaIn.key_value_metadata

\* After wire -> native -> wire -> native every column's order is Undefined.
ReadWriteReadUndefined ==
    (Steps >= 3 /\ Op(Steps - 2) = "try_from_thrift" /\ Op(Steps - 1) = "into_thrift"
        /\ Converted) =>
        /\ IsNone(Meta.column_orders)
        /\ \A i \in 0..MaxIndex : column_order(Meta, i) = Returned(Undefined)

\* C7: into_thrift yields a footer without column_orders, encryption_algorithm
\* and footer_signing_key_metadata, with version, created_by and
\* key_value_metadata equal to the native values and num_rows the native value;
\* so wire -> native -> wire -> native leaves every column's order Undefined.
\* (Violated in num_rows: the cast wraps above i64::MAX.)
C7_WritePathFrame ==
    /\ IntoThriftFrame
    /\ LastOp = "into_thrift" => Unwrap(thrift).num_rows = MetaIn.num_rows
    /\ ReadWriteReadUndefined

\* C8: key_value_metadata passes through both conversions unchanged: the
\* native value equals the wire value, and into_thrift reproduces it.
C8_KeyValuePassThrough ==
    /\ Converted => Meta.key_value_metadata = WireIn.key_value_metadata
    /\ LastOp = "into_thrift" =>
          /\ Unwrap(thrift).key_value_metadata = MetaIn.key_value_metadata
          /\ Op(Steps - 1) = "try_from_thrift" =>
                Unwrap(thrift).key_value_metadata
                    = Unwrap(hist[Steps - 1].thrift).key_value_metadata

\* C8 witness: [("a", Some("1")), ("b", None)] read and written back.
C8_Witness ==
    /\ LastOp = "into_thrift"
    /\ Op(Steps - 1) = "try_from_thrift"
    /\ Unwrap(hist[Steps - 1].thrift).key_value_metadata
           = Some(<<KeyValue("a", Some("1")), KeyValue("b", None)>>)
    /\ Unwrap(thrift).key_value_metadata
           = Some(<<KeyValue("a", Some("1")), KeyValue("b", None)>>)

\* The row groups of rgs that fail to convert, by position.
FailingRowGroups(schema_descr, rgs) ==
    {j \in 1..Len(rgs) :
        ~row_group_try_from_thrift(schema_descr, rgs[j], pointer_width).ok}

\* The least element of a non-empty set of numbers.
Least(S) == CHOOSE x \in S : \A y \in S : x <= y

FileMetaDataFields ==
    {"version", "num_rows", "created_by", "row_groups", "key_value_metadata",
     "schema_descr", "column_orders"}

\* C9: try_from_thrift returns the schema error if the schema fails; else the
\* error of the first row group that fails; else the range error if num_rows
\* is not representable; else a FileMetaData with every field.  No outcome is
\* both an error and a FileMetaData.
C9_FailFastOrder ==
    LastOp = "try_from_thrift" =>
        LET s == schema_try_from_thrift(WireIn.schema) IN
        /\ ~(IsSome(meta) /\ IsSome(error))
        /\ IF ~s.ok
           THEN IsNone(meta) /\ error = Some(s.error)
           ELSE LET bad == FailingRowGroups(s.value, WireIn.row_groups) IN
                IF bad # {}
                THEN /\ IsNone(meta)
                     /\ error = Some(row_group_try_from_thrift(
                                        s.value, WireIn.row_groups[Least(bad)],
                                        pointer_width).error)
                ELSE IF WireIn.num_rows < 0 \/ WireIn.num_rows > UsizeMax(pointer_width)
                THEN IsNone(meta) /\ IsSome(error) /\ Unwrap(error).kind = "range"
                ELSE /\ IsSome(meta)
                     /\ IsNone(error)
                     /\ DOMAIN Meta = FileMetaDataFields
                     /\ Len(Meta.row_groups) = Len(WireIn.row_groups)

\* C9 witness: two row groups fail in different ways and num_rows is negative;
\* the first row group's error is the one returned.
C9_Witness ==
    /\ LastOp = "try_from_thrift"
    /\ schema_try_from_thrift(WireIn.schema).ok
    /\ WireIn.num_rows < 0
    /\ Len(WireIn.row_groups) = 2
    /\ FailingRowGroups(schema_try_from_thrift(WireIn.schema).value,
                        WireIn.row_groups) = {1, 2}
    /\ error = Some([kind |-> "row group", detail |-> "number of rows"])
    /\ row_group_try_from_thrift(schema_try_from_thrift(WireIn.schema).value,
                                 WireIn.row_groups[2], pointer_width).error
           = [kind |-> "row group", detail |-> "number of columns"]

\* C10: on a FileMetaData returned by try_from_thrift, column_order(i) for i
\* below the leaf-column count returns without a panic: element i when
\* column_orders is present, Undefined when it is absent.
\* (Violated: fewer tags than leaf columns leave column_orders short.)
C10_InRangeReturns ==
    (Converted /\ IsSome(query) /\ Unwrap(query).i < Len(Leaves)) =>
        /\ Unwrap(query).outcome.returned
        /\ IsNone(Meta.column_orders) =>
              Unwrap(query).outcome.value = Some(Undefined)
        /\ IsSome(Meta.column_orders) =>
              /\ Unwrap(query).i < Len(Unwrap(Meta.column_orders))
              /\ Unwrap(query).outcome.value
                     = Some(Unwrap(Meta.column_orders)[Unwrap(query).i + 1])


====
